---- MODULE Spec2Model ----
(***************************************************************************)
(* Model of radiobsmatrix.core.main: the Matrix session lifecycle of       *)
(* main() (login, alias resolution, join, logout, close) and its poll loop *)
(* (fetch, RadioStatus normalization, title derivation, change detection,  *)
(* room_send / room_put_state dispatch, interval sleep).                   *)
(*                                                                         *)
(* Python strings are sequences of one-character strings, so startswith,   *)
(* split and replace are computed rather than assumed.  JSON values and    *)
(* Optional[str] values are records tagged by the field t.                 *)
(*                                                                         *)
(* One action is one await of main(): it records the call in `calls`,      *)
(* picks the outcome of the awaited call and runs the synchronous code up  *)
(* to the next await.  The outcomes of a call are "ok" (a success          *)
(* response), "error" (an nio *Error response object is returned),         *)
(* "raise" (the call raises an Exception subclass, e.g. a transport        *)
(* error) and "cancel" (asyncio.CancelledError, a BaseException, is        *)
(* thrown into the await).  Cancellation is requested at most once.        *)
(* client.close() and asyncio.sleep() do not raise Exception.              *)
(***************************************************************************)
EXTENDS Naturals, Sequences, FiniteSets

\* ------------------------------------------------------------------ bounds
\* Number of status fetches explored.
MaxPolls == 3

\* ------------------------------------------------------------------ strings
S_A == <<"A">>
S_B == <<"B">>
Alias == <<"#", "r">>
RoomX == <<"!", "x">>
RoomY == <<"!", "y">>
UnknownSong == <<"U","n","k","n","o","w","n"," ","S","o","n","g">>

\* str.startswith(prefix) for a one-character prefix
StartsWith(s, c) == Len(s) >= 1 /\ s[1] = c

\* s.split(sep)[-1]: the part of s after the last occurrence of sep
RECURSIVE LastSegment(_, _)
LastSegment(s, sep) ==
    IF s = <<>> THEN <<>>
    ELSE IF s[Len(s)] = sep THEN <<>>
    ELSE Append(LastSegment(SubSeq(s, 1, Len(s) - 1), sep), s[Len(s)])

\* s.replace(old, new) for one-character old and new
Replace(s, old, new) == [i \in 1..Len(s) |-> IF s[i] = old THEN new ELSE s[i]]

\* ------------------------------------------------------------------ values
\* Python None, and a str value
None == [t |-> "null", v |-> <<>>]
Str(s) == [t |-> "str", v |-> s]
\* JSON values other than strings and null
Num == [t |-> "num", v |-> <<>>]
List(items) == [t |-> "list", v |-> items]
Obj(d) == [t |-> "obj", v |-> d]
\* a response body that is not JSON
NotJson == [t |-> "notjson", v |-> <<>>]

\* field names of RadioStatus
F_title == <<"t","i","t","l","e">>
F_filename == <<"f","i","l","e","n","a","m","e">>
F_encoder == <<"e","n","c","o","d","e","r">>
Fields == {F_title, F_filename, F_encoder}

\* the empty dict
EmptyDict == [k \in {} |-> None]
\* d with d[k] = v (dict insertion or overwrite)
DictPut(d, k, v) == [x \in DOMAIN d \cup {k} |-> IF x = k THEN v ELSE d[x]]
\* a dict with one entry, with two entries
D1(k, v) == DictPut(EmptyDict, k, v)
D2(k1, v1, k2, v2) == DictPut(D1(k1, v1), k2, v2)

\* ------------------------------------------------------------------ RadioStatus
\* the marker of a raised exception (TypeError, ValidationError)
Raised == [t |-> "raised", v |-> <<>>]

\* isinstance(item, list) and len(item) == 2
IsPair(item) == item.t = "list" /\ Len(item.v) = 2
\* a list or a dict is unhashable and cannot be a dict key
Hashable(x) == x.t \notin {"list", "obj"}
\* the dict key a hashable JSON value makes: a string is itself, any other
\* value is a key that equals no field name
KeyOf(x) == IF x.t = "str" THEN x.v ELSE <<x.t>>

\* the dict comprehension of parse_list over the first n items
RECURSIVE FoldPairs(_, _)
FoldPairs(items, n) ==
    IF n = 0 THEN Obj(EmptyDict)
    ELSE LET rest == FoldPairs(items, n - 1)
             item == items[n]
         IN  IF rest.t = "raised" THEN Raised
             ELSE IF ~IsPair(item) THEN rest
             ELSE IF ~Hashable(item.v[1]) THEN Raised
             ELSE Obj(DictPut(rest.v, KeyOf(item.v[1]), item.v[2]))

\* RadioStatus.parse_list (the mode="before" validator)
parse_list(data) ==
    IF data.t = "list" THEN FoldPairs(data.v, Len(data.v)) ELSE data

\* validation of one `str | None = None` field of the dict d
FieldValue(d, f) == IF f \in DOMAIN d THEN d[f] ELSE None
FieldValid(d, f) == FieldValue(d, f).t \in {"null", "str"}

\* RadioStatus.model_validate(data): the record of the fields, or Raised
model_validate(data) ==
    LET pre == parse_list(data)
    IN  IF pre.t = "raised" THEN Raised
        ELSE IF pre.t # "obj" THEN Raised
        ELSE IF \E f \in Fields : ~FieldValid(pre.v, f) THEN Raised
        ELSE [t |-> "status",
              v |-> [title |-> FieldValue(pre.v, F_title),
                     filename |-> FieldValue(pre.v, F_filename),
                     encoder |-> FieldValue(pre.v, F_encoder)]]

\* `if not x` read as `if x is None`: an empty string counts as a value
TruthyM(x) == x.t = "str"

\* Python truthiness of a `str | None` value
Truthy(x) == x.t = "str" /\ x.v # <<>>

\* the song_title of lines 118-123, as a string
DisplayTitle(status) ==
    IF Truthy(status.title) THEN status.title.v
    ELSE IF Truthy(status.filename)
         THEN Replace(LastSegment(status.filename.v, "/"), "_", " ")
         ELSE UnknownSong

\* line 125 without the comparison with current_title
ShouldNotifyM(song, current) == song # <<>>

\* the condition of line 125: song_title is a string, current_title a
\* string or None
ShouldNotify(song, current) == song # <<>> /\ Str(song) # current

\* response bodies of every shape parse_list and model_validate tell apart
Payloads == <<
    Obj(D1(F_title, Str(S_A))),
    Obj(D1(F_title, Str(S_B))),
    List(<<List(<<Str(F_title), Str(S_A)>>)>>),
    Obj(D1(F_filename, Str(<<"/", "m", "/", "a", "_", "b">>))),
    Obj(D2(F_title, Str(<<>>), F_filename, Str(<<"m", "/">>))),
    List(<<List(<<Str(F_title), Str(S_A), Str(S_B)>>), Num>>),
    Obj(D1(F_title, Num)),
    Num,
    List(<<List(<<List(<<>>), Str(S_A)>>)>>),
    NotJson
>>

\* the response bodies the radio API returns in the poll loop: titles A and
\* B as a mapping, A as a list of pairs, an empty derived title, a body
\* model_validate rejects and a body that is not JSON
PollPayloads == <<Payloads[1], Payloads[2], Payloads[3], Payloads[5], Payloads[8], Payloads[10]>>

\* a local that has not been assigned yet
Unset == [t |-> "unset", v |-> <<>>]

\* ------------------------------------------------------------------ state
VARIABLES
    settings,        \* get_settings(): the configuration, fixed at start
    pc,              \* the await main() is at, or "config", "done", "raised"
    client,          \* TRUE once AsyncClient(...) has been constructed
    matrix_room_id,  \* the local of that name
    current_title,   \* the local of that name: None or a str
    data,            \* the local of that name: the value of response.json()
    status,          \* the local of that name: the validated RadioStatus;
                     \* both are written and last read inside the one step
                     \* of lines 115-123, so only NormSpec, which takes that
                     \* step apart, keeps them; under Spec they stay Unset
    song_title,      \* the local of that name, of the current iteration
    notify,          \* the branch of line 125 was taken in this iteration
    cancelled,       \* cancellation of the task has been delivered
    resolve_res,     \* the room_id of the resolve response, <<>> before it
    polls,           \* number of http_client.get calls so far
    calls            \* history: the awaited calls, in order, with outcomes

vars == <<settings, pc, client, matrix_room_id, current_title, data, status,
          song_title, notify, cancelled, resolve_res, polls, calls>>

\* the configurations explored: each required value empty or not, the room
\* an alias or an internal id, the two flags
Settings ==
    [user : {"", "@bot:hs"}, password : {"", "pw"},
     room_id : {<<>>, Alias, RoomX}, api_url : {"", "http://radio/status"},
     send_messages : BOOLEAN, update_topic : BOOLEAN]

\* the room ids a successful alias resolution can return
ResolvedIds == {RoomX, RoomY}

\* an entry of the call history
Call(op, room, title, res) == [op |-> op, room |-> room, title |-> title, res |-> res]

\* what the awaited call at this point of main() can do
Outcomes == {"ok", "error", "raise", "cancel"}
\* CancelledError is delivered at most once
CanHappen(o) == o = "cancel" => ~cancelled

Init ==
    /\ settings \in Settings
    /\ pc = "config"
    /\ client = FALSE
    /\ matrix_room_id = <<>>
    /\ current_title = None
    /\ data = Unset
    /\ status = Unset
    /\ song_title = <<>>
    /\ notify = FALSE
    /\ cancelled = FALSE
    /\ resolve_res = <<>>
    /\ polls = 0
    /\ calls = <<>>

\* line 58 without radio_api_url in the list
ConfigCompleteM(cfg) ==
    cfg.user # "" /\ cfg.password # "" /\ cfg.room_id # <<>>

\* lines 48-66: the required-config check and the construction of the client
ConfigComplete(cfg) ==
    cfg.user # "" /\ cfg.password # "" /\ cfg.room_id # <<>> /\ cfg.api_url # ""

Configure ==
    /\ pc = "config"
    /\ IF ConfigComplete(settings)
       THEN /\ client' = TRUE
            /\ matrix_room_id' = settings.room_id
            /\ pc' = "login"
       ELSE /\ pc' = "done"
            /\ UNCHANGED <<client, matrix_room_id>>
    /\ UNCHANGED <<data, status, settings, current_title, song_title, notify, cancelled, resolve_res, polls, calls>>

\* line 78
IsAlias(room) == StartsWith(room, "#")

\* where main() goes after `await client.login(...)`, lines 70-78 and 98-100
AfterLogin(o, room) ==
    CASE o = "ok" -> IF IsAlias(room) THEN "resolve" ELSE "join"
      [] o = "error" -> "close73"
      [] o = "raise" -> "close100"
      [] o = "cancel" -> "raised"

Login ==
    /\ pc = "login"
    /\ \E o \in Outcomes :
        /\ CanHappen(o)
        /\ calls' = Append(calls, Call("login", <<>>, <<>>, o))
        /\ cancelled' = (cancelled \/ o = "cancel")
        /\ pc' = AfterLogin(o, matrix_room_id)
    /\ UNCHANGED <<data, status, settings, client, matrix_room_id, current_title, song_title, notify,
                   resolve_res, polls>>

\* line 88 left out: the alias stays in matrix_room_id
AssignResolvedM(old, resolved) == old

\* line 88: the assignment of the resolved id
AssignResolved(old, resolved) == resolved

\* lines 81-87 without the return: a RoomResolveAliasError response falls
\* through to the join
AfterResolveM(o) ==
    CASE o \in {"ok", "error"} -> "join"
      [] o = "raise" -> "close100"
      [] o = "cancel" -> "raised"

\* where main() goes after `await client.room_resolve_alias(...)`, lines 80-91
AfterResolve(o) ==
    CASE o = "ok" -> "join"
      [] o = "error" -> "logout85"
      [] o = "raise" -> "close100"
      [] o = "cancel" -> "raised"

Resolve ==
    /\ pc = "resolve"
    /\ \E o \in Outcomes :
        /\ CanHappen(o)
        /\ \E r \in ResolvedIds :
            /\ calls' = Append(calls, Call("resolve", matrix_room_id, <<>>, o))
            /\ resolve_res' = IF o = "ok" THEN r ELSE resolve_res
            /\ matrix_room_id' =
                 IF o = "ok" THEN AssignResolved(matrix_room_id, r) ELSE matrix_room_id
        /\ cancelled' = (cancelled \/ o = "cancel")
        /\ pc' = AfterResolve(o)
    /\ UNCHANGED <<data, status, settings, client, current_title, song_title, notify, polls>>

\* lines 93-97 without the return: a JoinError response falls through to
\* the poll loop
AfterJoinM(o) ==
    CASE o \in {"ok", "error"} -> "get"
      [] o = "raise" -> "close100"
      [] o = "cancel" -> "raised"

\* where main() goes after `await client.join(...)`, lines 92-105
AfterJoin(o) ==
    CASE o = "ok" -> "get"
      [] o = "error" -> "logout95"
      [] o = "raise" -> "close100"
      [] o = "cancel" -> "raised"

Join ==
    /\ pc = "join"
    /\ \E o \in Outcomes :
        /\ CanHappen(o)
        /\ calls' = Append(calls, Call("join", matrix_room_id, <<>>, o))
        /\ cancelled' = (cancelled \/ o = "cancel")
        /\ pc' = AfterJoin(o)
    /\ UNCHANGED <<data, status, settings, client, matrix_room_id, current_title, song_title, notify,
                   resolve_res, polls>>

\* where main() goes after an `await client.logout()` inside the setup try
\* block (lines 85, 95): on to the close that follows it, or to the handler
\* of line 98
AfterSetupLogout(o, next) ==
    CASE o \in {"ok", "error"} -> next
      [] o = "raise" -> "close100"
      [] o = "cancel" -> "raised"

\* where main() goes after an `await client.logout()` in the finally block
\* (line 176): nothing catches what it raises
AfterFinalLogout(o) ==
    CASE o \in {"ok", "error"} -> "close177"
      [] o \in {"raise", "cancel"} -> "raised"

Logout ==
    /\ pc \in {"logout85", "logout95", "logout176"}
    /\ \E o \in Outcomes :
        /\ CanHappen(o)
        /\ calls' = Append(calls, Call("logout", <<>>, <<>>, o))
        /\ cancelled' = (cancelled \/ o = "cancel")
        /\ pc' = CASE pc = "logout85" -> AfterSetupLogout(o, "close86")
                   [] pc = "logout95" -> AfterSetupLogout(o, "close96")
                   [] pc = "logout176" -> AfterFinalLogout(o)
    /\ UNCHANGED <<data, status, settings, client, matrix_room_id, current_title, song_title, notify,
                   resolve_res, polls>>

\* where main() goes after an `await client.close()` (lines 73, 86, 96, 100,
\* 177): it returns, or CancelledError propagates
AfterClose(o) == IF o = "ok" THEN "done" ELSE "raised"

Close ==
    /\ pc \in {"close73", "close86", "close96", "close100", "close177"}
    /\ \E o \in {"ok", "cancel"} :
        /\ CanHappen(o)
        /\ calls' = Append(calls, Call("close", <<>>, <<>>, o))
        /\ cancelled' = (cancelled \/ o = "cancel")
        /\ pc' = AfterClose(o)
    /\ UNCHANGED <<data, status, settings, client, matrix_room_id, current_title, song_title, notify,
                   resolve_res, polls>>

\* ------------------------------------------------------------------ poll loop
\* lines 115-123 on a response with body p: the song_title, or Raised when
\* response.json() or model_validate raises
SongTitleOf(p) ==
    IF p.t = "notjson" THEN Raised
    ELSE LET validated == model_validate(p)
         IN  IF validated.t = "raised" THEN Raised ELSE Str(DisplayTitle(validated.v))

\* line 131 without its test of matrix_send_messages
AfterDecisionM(n, cfg) ==
    IF ~n THEN "sleep" ELSE "room_send"

\* lines 125-164 up to the first await: where main() goes once the branch of
\* line 125 is decided
AfterDecision(n, cfg) ==
    IF ~n THEN "sleep"
    ELSE IF cfg.send_messages THEN "room_send"
    ELSE IF cfg.update_topic THEN "room_put_state"
    ELSE "sleep"

\* line 164 is reached without an await when the branch is taken and both
\* flags are off
TitleAfterDecision(n, cfg, song, current) ==
    IF n /\ ~cfg.send_messages /\ ~cfg.update_topic THEN Str(song) ELSE current

\* the dispatch reading a song_title that line 118 did not refresh
GetReturnsM(p) ==
    LET title == SongTitleOf(p)
    IN  IF title.t = "raised"
        THEN /\ calls' = Append(calls, Call("get", <<>>, <<>>, "parse_error"))
             /\ pc' = "sleep"
             /\ notify' = FALSE
             /\ UNCHANGED <<data, status, song_title, current_title>>
        ELSE LET n == ShouldNotify(title.v, current_title)
             IN  /\ calls' = Append(calls, Call("get", <<>>, title.v, "ok"))
                 /\ UNCHANGED <<data, status>>
                 /\ UNCHANGED song_title
                 /\ notify' = n
                 /\ current_title' = TitleAfterDecision(n, settings, title.v, current_title)
                 /\ pc' = AfterDecision(n, settings)

\* lines 112-131: the response arrives with body p and passes
\* raise_for_status; data and status live and die inside SongTitleOf(p)
GetReturns(p) ==
    LET title == SongTitleOf(p)
    IN  IF title.t = "raised"
        THEN /\ calls' = Append(calls, Call("get", <<>>, <<>>, "parse_error"))
             /\ pc' = "sleep"
             /\ notify' = FALSE
             /\ UNCHANGED <<data, status, song_title, current_title>>
        ELSE LET n == ShouldNotify(title.v, current_title)
             IN  /\ calls' = Append(calls, Call("get", <<>>, title.v, "ok"))
                 /\ UNCHANGED <<data, status>>
                 /\ song_title' = title.v
                 /\ notify' = n
                 /\ current_title' = TitleAfterDecision(n, settings, title.v, current_title)
                 /\ pc' = AfterDecision(n, settings)

\* the handler of line 166 forgetting the recorded title
GetFailsM(res) ==
    /\ calls' = Append(calls, Call("get", <<>>, <<>>, res))
    /\ pc' = "sleep"
    /\ notify' = FALSE
    /\ current_title' = None
    /\ UNCHANGED <<data, status, song_title>>

\* lines 166-173: http_client.get or raise_for_status raises httpx.HTTPError;
\* it is logged
GetFails(res) ==
    /\ calls' = Append(calls, Call("get", <<>>, <<>>, res))
    /\ pc' = "sleep"
    /\ notify' = FALSE
    /\ UNCHANGED <<data, status, song_title, current_title>>

\* CancelledError at line 112 is no Exception: on to the finally block
GetCancelled ==
    /\ calls' = Append(calls, Call("get", <<>>, <<>>, "cancel"))
    /\ pc' = "logout176"
    /\ notify' = FALSE
    /\ UNCHANGED <<data, status, song_title, current_title>>

Get ==
    /\ pc = "get"
    /\ \/ /\ polls < MaxPolls
          /\ \/ \E i \in 1..Len(PollPayloads) : GetReturns(PollPayloads[i])
             \/ \E res \in {"http_error"} : GetFails(res)
          /\ UNCHANGED cancelled
       \/ /\ ~cancelled
          /\ GetCancelled
          /\ cancelled' = TRUE
    /\ polls' = polls + 1
    /\ UNCHANGED <<settings, client, matrix_room_id, resolve_res>>

\* the try of line 111 not covering room_send: what it raises ends the loop
AfterRoomSendM(o, cfg) ==
    CASE o \in {"ok", "error"} -> IF cfg.update_topic THEN "room_put_state" ELSE "sleep"
      [] o \in {"raise", "cancel"} -> "logout176"

\* where main() goes after `await client.room_send(...)`, lines 133-148 and
\* 168-173
AfterRoomSend(o, cfg) ==
    CASE o \in {"ok", "error"} -> IF cfg.update_topic THEN "room_put_state" ELSE "sleep"
      [] o = "raise" -> "sleep"
      [] o = "cancel" -> "logout176"

\* current_title after `await client.room_send(...)`: line 164 follows a
\* returned response when update_topic is off
TitleAfterRoomSend(o, cfg, song, current) ==
    IF o \in {"ok", "error"} /\ ~cfg.update_topic THEN Str(song) ELSE current

RoomSend ==
    /\ pc = "room_send"
    /\ \E o \in Outcomes :
        /\ CanHappen(o)
        /\ calls' = Append(calls, Call("room_send", matrix_room_id, song_title, o))
        /\ cancelled' = (cancelled \/ o = "cancel")
        /\ current_title' = TitleAfterRoomSend(o, settings, song_title, current_title)
        /\ pc' = AfterRoomSend(o, settings)
    /\ UNCHANGED <<data, status, settings, client, matrix_room_id, song_title, notify, resolve_res, polls>>

\* line 173 inside the else of the change test: a dispatched iteration
\* polls again without sleeping
AfterRoomPutStateM(o) ==
    CASE o \in {"ok", "error"} -> "get"
      [] o = "raise" -> "sleep"
      [] o = "cancel" -> "logout176"

\* where main() goes after `await client.room_put_state(...)`, lines 152-173
AfterRoomPutState(o) ==
    CASE o \in {"ok", "error", "raise"} -> "sleep"
      [] o = "cancel" -> "logout176"

\* current_title after `await client.room_put_state(...)`: line 164 follows
\* a returned response
TitleAfterRoomPutState(o, song, current) ==
    IF o \in {"ok", "error"} THEN Str(song) ELSE current

RoomPutState ==
    /\ pc = "room_put_state"
    /\ \E o \in Outcomes :
        /\ CanHappen(o)
        /\ calls' = Append(calls, Call("room_put_state", matrix_room_id, song_title, o))
        /\ cancelled' = (cancelled \/ o = "cancel")
        /\ current_title' = TitleAfterRoomPutState(o, song_title, current_title)
        /\ pc' = AfterRoomPutState(o)
    /\ UNCHANGED <<data, status, settings, client, matrix_room_id, song_title, notify, resolve_res, polls>>

\* where main() goes after `await asyncio.sleep(poll_interval)`, line 173
AfterSleep(o) == IF o = "ok" THEN "get" ELSE "logout176"

Sleep ==
    /\ pc = "sleep"
    /\ \E o \in {"ok", "cancel"} :
        /\ CanHappen(o)
        /\ calls' = Append(calls, Call("sleep", <<>>, <<>>, o))
        /\ cancelled' = (cancelled \/ o = "cancel")
        /\ pc' = AfterSleep(o)
    /\ UNCHANGED <<data, status, settings, client, matrix_room_id, current_title, song_title, notify,
                   resolve_res, polls>>

Next ==
    \/ Configure
    \/ Login
    \/ Resolve
    \/ Join
    \/ Logout
    \/ Close
    \/ Get
    \/ RoomSend
    \/ RoomPutState
    \/ Sleep

Spec == Init /\ [][Next]_vars

\* ------------------------------------------------------------------ normalization
\* lines 115-123 on their own: data is any response body, status and
\* song_title are computed from it as the iteration computes them

\* a key a body does not have
Absent == [t |-> "absent", v |-> <<>>]
\* a key RadioStatus does not know
F_other == <<"x">>

\* the values a body gives to "title" and to "filename"
TitleVals == <<Absent, None, Str(<<>>), Str(S_A), Str(<<"a", "/", "b", "_">>), Num>>
FilenameVals == <<Absent, None, Str(<<>>), Str(<<"m", "/">>), Str(<<"a", "_", "b">>),
                  Str(<<"/", "m", "/", "a", "_", "b">>), Str(<<"_", "/", "_", "_">>), Num>>
OtherVals == <<Absent, Str(S_B)>>

\* the (key, value) entries of a body with these values, absent keys left out
Entry(k, val) == IF val.t = "absent" THEN <<>> ELSE <<<<k, val>>>>
Entries(tv, fv, ov) == Entry(F_other, ov) \o Entry(F_title, tv) \o Entry(F_filename, fv)

\* the JSON object with these entries
RECURSIVE DictOf(_, _)
DictOf(es, n) ==
    IF n = 0 THEN EmptyDict ELSE DictPut(DictOf(es, n - 1), es[n][1], es[n][2])
ObjectBody(es) == Obj(DictOf(es, Len(es)))
\* the JSON list of [key, value] pairs with these entries
PairsBody(es) == List([i \in 1..Len(es) |-> List(<<Str(es[i][1]), es[i][2]>>)])

\* the body of shape sh: a mapping or a list of pairs
BodyShapes == {"object", "pairs"}
Body(sh, tv, fv, ov) ==
    IF sh = "object" THEN ObjectBody(Entries(tv, fv, ov)) ELSE PairsBody(Entries(tv, fv, ov))

NormInit ==
    /\ \/ \E sh \in BodyShapes, i \in 1..Len(TitleVals), j \in 1..Len(FilenameVals),
             k \in 1..Len(OtherVals) :
            data = Body(sh, TitleVals[i], FilenameVals[j], OtherVals[k])
       \/ \E n \in 1..Len(Payloads) : Payloads[n].t # "notjson" /\ data = Payloads[n]
    /\ pc = "model_validate"
    /\ status = Unset
    /\ song_title = <<>>
    /\ settings = [user |-> "@bot:hs", password |-> "pw", room_id |-> RoomX,
                   api_url |-> "http://radio/status",
                   send_messages |-> TRUE, update_topic |-> FALSE]
    /\ client = TRUE
    /\ matrix_room_id = RoomX
    /\ current_title = None
    /\ notify = FALSE
    /\ cancelled = FALSE
    /\ resolve_res = <<>>
    /\ polls = 0
    /\ calls = <<>>

\* line 116: status = RadioStatus.model_validate(data), which may raise
Validate ==
    /\ pc = "model_validate"
    /\ status' = model_validate(data)
    /\ pc' = IF status'.t = "raised" THEN "validate_raised" ELSE "derive"
    /\ UNCHANGED <<data, song_title, settings, client, matrix_room_id, current_title,
                   notify, cancelled, resolve_res, polls, calls>>

\* lines 118-123: the derivation of song_title
Derive ==
    /\ pc = "derive"
    /\ song_title' = DisplayTitle(status.v)
    /\ pc' = "derived"
    /\ UNCHANGED <<data, status, settings, client, matrix_room_id, current_title,
                   notify, cancelled, resolve_res, polls, calls>>

NormNext ==
    \/ Validate
    \/ Derive

NormSpec == NormInit /\ [][NormNext]_vars

\* ------------------------------------------------------------------ history
\* number of calls of op so far
Count(op) == Cardinality({i \in DOMAIN calls : calls[i].op = op})
\* main() has returned ("done") or an exception left it ("raised")
Exited == pc \in {"done", "raised"}
\* the awaits of the poll loop
LoopPcs == {"get", "room_send", "room_put_state", "sleep"}
\* the poll loop has been entered
LoopEntered == Count("get") >= 1
\* the last call of the history after this step
LastCall == calls'[Len(calls')]
\* this step is an await of op
Awaits(op) == Len(calls') = Len(calls) + 1 /\ LastCall.op = op
\* the positions of the status fetches in the history
Gets == {i \in DOMAIN calls : calls[i].op = "get"}
\* the titles passed to room_send, in order
RECURSIVE SentTitles(_)
SentTitles(n) ==
    IF n = 0 THEN <<>>
    ELSE IF calls[n].op = "room_send" THEN Append(SentTitles(n - 1), calls[n].title)
    ELSE SentTitles(n - 1)

\* ------------------------------------------------------------------ claims

\* C1: on the exit paths through a failed setup and through the end of the
\* poll loop (cancellation delivered inside the loop), whatever the cleanup
\* calls do, client.close has been invoked exactly once when main() exits.
C1_CloseExactlyOnce ==
    (Exited /\ client /\ (cancelled => LoopEntered)) => Count("close") = 1

\* C2: when the task is cancelled at login, alias resolution, join, status
\* fetch, room_send, room_put_state or the interval sleep, client.close has
\* been invoked by the time main() exits.
C2_CloseOnCancel ==
    (Exited /\ client /\
        \E i \in DOMAIN calls :
            /\ calls[i].res = "cancel"
            /\ calls[i].op \in {"login", "resolve", "join", "get", "room_send",
                                "room_put_state", "sleep"})
    => Count("close") >= 1

\* C3: when an iteration that detected a change has finished its dispatch
\* and reached the interval sleep, current_title is the detected title,
\* whatever room_send and room_put_state returned or raised.
C3_TitleAdvances ==
    (pc = "sleep" /\ notify) => current_title = Str(song_title)

\* C4: when every poll so far succeeded with one and the same non-empty
\* title and the last iteration has reached its sleep, exactly one room_send
\* (messages enabled) and exactly one room_put_state (topic updates enabled)
\* have been made, however many polls there were.
C4_OneDispatchPerRun ==
    (/\ pc = "sleep"
     /\ Gets # {}
     /\ \A i \in Gets : calls[i].res = "ok" /\ calls[i].title # <<>>
     /\ \A i, j \in Gets : calls[i].title = calls[j].title)
    => /\ Count("room_send") = (IF settings.send_messages THEN 1 ELSE 0)
       /\ Count("room_put_state") = (IF settings.update_topic THEN 1 ELSE 0)

\* C5: in every iteration whose fetch and normalization succeed with title
\* T, the dispatch branch is taken if and only if T is non-empty and differs
\* from current_title, and the first enabled messaging call is awaited next
\* exactly in that case.
C5_NotifyIffChanged ==
    [][(Awaits("get") /\ LastCall.res = "ok") =>
         LET T == LastCall.title
             changed == T # <<>> /\ (current_title.t = "null" \/ current_title.v # T)
         IN  /\ notify' <=> changed
             /\ settings.send_messages => (pc' = "room_send" <=> changed)
             /\ (~settings.send_messages /\ settings.update_topic) =>
                    (pc' = "room_put_state" <=> changed)
             /\ pc' \in {"room_send", "room_put_state"} => song_title' = T]_vars

\* C5 witness: titles A, B, A polled in turn were announced three times.
C5_Witness ==
    /\ SentTitles(Len(calls)) = <<S_A, S_B, S_A>>
    /\ Count("get") = 3
    /\ pc = "sleep"

\* C6: an iteration whose fetch fails or whose payload cannot be parsed
\* leaves current_title unchanged and goes straight to the sleep without a
\* messaging call; and a successful poll that follows a failed one and
\* returns the recorded title goes straight to the sleep as well.
C6_FetchFailureFrame ==
    [][/\ (Awaits("get") /\ LastCall.res \in {"http_error", "parse_error"}) =>
            /\ current_title' = current_title
            /\ pc' = "sleep"
            /\ ~notify'
       /\ (/\ Awaits("get") /\ LastCall.res = "ok"
           /\ current_title = Str(LastCall.title)
           /\ \E i \in Gets : /\ \A j \in Gets : j <= i
                              /\ calls[i].res \in {"http_error", "parse_error"}) =>
            /\ pc' = "sleep"
            /\ ~notify'
            /\ current_title' = current_title]_vars

\* C6 witness: A was announced, the next fetch failed, the next poll
\* returned A again, and A has been sent once.
C6_Witness ==
    /\ pc = "sleep"
    /\ Count("get") = 3
    /\ \E i, j, k \in Gets :
        /\ i < j /\ j < k
        /\ calls[i].res = "ok" /\ calls[i].title = S_A
        /\ calls[j].res = "http_error"
        /\ calls[k].res = "ok" /\ calls[k].title = S_A
    /\ SentTitles(Len(calls)) = <<S_A>>
    /\ current_title = Str(S_A)

\* C7: inside the poll loop, a step that is not a cancellation stays inside
\* the loop and makes no logout or close; a raised exception or failed fetch
\* leads to the sleep, and the sleep leads to the next fetch.
C7_LoopSurvivesFailures ==
    [][(pc \in LoopPcs /\ LastCall.res # "cancel") =>
         /\ pc' \in LoopPcs
         /\ LastCall.op \notin {"logout", "close"}
         /\ LastCall.res \in {"raise", "http_error", "parse_error"} => pc' = "sleep"
         /\ LastCall.res = "error" => pc' \in {"room_put_state", "sleep"}
         /\ pc = "sleep" => pc' = "get"]_vars

\* C7 witness: room_send raised, room_put_state returned an error, a fetch
\* failed, and the loop is polling again with no logout or close made.
C7_Witness ==
    /\ pc = "get"
    /\ \E i \in DOMAIN calls : calls[i].op = "room_send" /\ calls[i].res = "raise"
    /\ \E i \in DOMAIN calls : calls[i].op = "room_put_state" /\ calls[i].res = "error"
    /\ \E i \in DOMAIN calls : calls[i].op = "get" /\ calls[i].res = "http_error"
    /\ Count("logout") = 0 /\ Count("close") = 0

\* C8: when an iteration that detected a change with both flags enabled has
\* reached the sleep, room_put_state was attempted for its title, whatever
\* room_send returned or raised.
C8_TopicAfterSendFailure ==
    (pc = "sleep" /\ notify /\ settings.send_messages /\ settings.update_topic)
    => /\ calls[Len(calls)].op = "room_put_state"
       /\ calls[Len(calls)].title = song_title

\* a setup call that returned an error response or raised
Failed(op) == \E i \in DOMAIN calls : calls[i].op = op /\ calls[i].res \in {"error", "raise"}
SetupFailed == Failed("login") \/ Failed("resolve") \/ Failed("join")

\* C9: login, resolution and join are each attempted at most once; after a
\* failed login only close is called, after a failed resolution no join is
\* made, after any failed setup call the poll loop is never entered and no
\* fetch, send or topic call is made; and unless the task is cancelled,
\* main() ends by returning with the client closed.
C9_SetupFailureEnds ==
    /\ Count("login") <= 1 /\ Count("resolve") <= 1 /\ Count("join") <= 1
    /\ Failed("login") => \A i \in DOMAIN calls : calls[i].op \in {"login", "close"}
    /\ Failed("resolve") => Count("join") = 0
    /\ SetupFailed =>
        /\ pc \in {"close73", "logout85", "close86", "logout95", "close96",
                   "close100", "done", "raised"}
        /\ \A i \in DOMAIN calls : calls[i].op \in {"login", "resolve", "join", "logout", "close"}
        /\ (Exited /\ ~cancelled) =>
              pc = "done" /\ Count("close") = 1 /\ calls[Len(calls)].op = "close"

\* C9 witness: join returned an error and main() has returned.
C9_Witness ==
    /\ pc = "done"
    /\ \E i \in DOMAIN calls : calls[i].op = "join" /\ calls[i].res = "error"
    /\ Count("resolve") = 1

\* the room every call after resolution has to use
TargetRoom ==
    IF StartsWith(settings.room_id, "#") THEN resolve_res ELSE settings.room_id

\* C10: alias resolution follows a successful login exactly when the
\* configured room id starts with '#', it is given the configured alias and
\* precedes join; join, room_send and room_put_state are given the room id
\* of the resolve response, or the configured id when it is no alias, and
\* never the alias.
C10_ResolvedRoomUsed ==
    /\ \A i \in DOMAIN calls :
        calls[i].op = "resolve" =>
            /\ StartsWith(settings.room_id, "#")
            /\ calls[i].room = settings.room_id
            /\ \A j \in 1..i : calls[j].op # "join"
    /\ \A i \in DOMAIN calls :
        (calls[i].op = "login" /\ calls[i].res = "ok" /\ i < Len(calls)) =>
            (calls[i + 1].op = "resolve" <=> StartsWith(settings.room_id, "#"))
    /\ \A i \in DOMAIN calls :
        calls[i].op \in {"join", "room_send", "room_put_state"} =>
            /\ calls[i].room = TargetRoom
            /\ ~StartsWith(calls[i].room, "#")
            /\ StartsWith(settings.room_id, "#") <=>
                 \E j \in 1..i : calls[j].op = "resolve" /\ calls[j].res = "ok"

\* C10 witness: the configured room is an alias that resolved to RoomY, and
\* a message and a topic update went to RoomY.
C10_Witness ==
    /\ settings.room_id = Alias
    /\ resolve_res = RoomY
    /\ \E i \in DOMAIN calls : calls[i].op = "room_send" /\ calls[i].room = RoomY
    /\ \E i \in DOMAIN calls : calls[i].op = "room_put_state" /\ calls[i].room = RoomY

\* a body is a mapping or a non-empty list of 2-element lists
WellShaped(d) ==
    \/ d.t = "obj"
    \/ /\ d.t = "list"
       /\ Len(d.v) >= 1
       /\ \A i \in 1..Len(d.v) : d.v[i].t = "list" /\ Len(d.v[i].v) = 2
\* every field of the validated record is None
AllAbsent(st) == st.title = None /\ st.filename = None /\ st.encoder = None

\* C11: model_validate raises for no body; a mapping yields the record of
\* its title, filename and encoder entries, and a body that is neither a
\* mapping nor a list of 2-element pairs yields the record with every field
\* None.
C11_NormalizationTotal ==
    /\ pc # "validate_raised"
    /\ (pc \in {"derive", "derived"} /\ data.t = "obj") =>
          /\ status.v.title = FieldValue(data.v, F_title)
          /\ status.v.filename = FieldValue(data.v, F_filename)
          /\ status.v.encoder = FieldValue(data.v, F_encoder)
    /\ (pc \in {"derive", "derived"} /\ ~WellShaped(data)) => AllAbsent(status.v)

\* C12: the derived song_title is never the empty string, whatever title
\* and filename are.
C12_TitleNeverEmpty ==
    pc = "derived" => song_title # <<>>

\* r is the part of f after its last '/', with every '_' turned into ' '
IsLastSegmentOf(r, f) ==
    \E k \in 0..Len(f) :
        /\ k = 0 \/ f[k] = "/"
        /\ \A i \in (k + 1)..Len(f) : f[i] # "/"
        /\ Len(r) = Len(f) - k
        /\ \A i \in 1..Len(r) : r[i] = (IF f[k + i] = "_" THEN " " ELSE f[k + i])

\* C13 as stated: song_title is title when title is present (a string),
\* else the rewritten last segment of filename when filename is present,
\* else "Unknown Song".
C13_DerivationByPresence ==
    pc = "derived" =>
        IF status.v.title.t = "str" THEN song_title = status.v.title.v
        ELSE IF status.v.filename.t = "str"
             THEN IsLastSegmentOf(song_title, status.v.filename.v)
             ELSE song_title = UnknownSong

\* x is a string that is not empty
NonEmpty(x) == x.t = "str" /\ Len(x.v) >= 1

\* C13 amended: song_title is title when title is a non-empty string, else
\* the rewritten last segment of filename when filename is a non-empty
\* string, else "Unknown Song".
C13_DerivationByNonEmpty ==
    pc = "derived" =>
        IF NonEmpty(status.v.title) THEN song_title = status.v.title.v
        ELSE IF NonEmpty(status.v.filename)
             THEN IsLastSegmentOf(song_title, status.v.filename.v)
             ELSE song_title = UnknownSong

\* C13 witness: an empty title with filename "/m/a_b" gave "a b".
C13_Witness ==
    /\ pc = "derived"
    /\ status.v.title = Str(<<>>)
    /\ status.v.filename = Str(<<"/", "m", "/", "a", "_", "b">>)
    /\ song_title = <<"a", " ", "b">>

\* the position of the last status fetch before position i, 0 if none
RECURSIVE LastGetBefore(_)
LastGetBefore(i) ==
    IF i <= 1 THEN 0
    ELSE IF calls[i - 1].op = "get" THEN i - 1
    ELSE LastGetBefore(i - 1)
\* the positions of the calls of op strictly between positions a and b
Between(op, a, b) == {i \in DOMAIN calls : a < i /\ i < b /\ calls[i].op = op}
\* the titles of the successful polls, in order
RECURSIVE PolledTitles(_)
PolledTitles(n) ==
    IF n = 0 THEN <<>>
    ELSE IF calls[n].op = "get" /\ calls[n].res = "ok"
         THEN Append(PolledTitles(n - 1), calls[n].title)
         ELSE PolledTitles(n - 1)
\* a is b with elements left out
RECURSIVE IsSubsequence(_, _)
IsSubsequence(a, b) ==
    IF a = <<>> THEN TRUE
    ELSE IF b = <<>> THEN FALSE
    ELSE IF a[1] = b[1] THEN IsSubsequence(Tail(a), Tail(b))
    ELSE IsSubsequence(a, Tail(b))

\* C14: whenever room_send or room_put_state is called, it carries the
\* title of the latest poll, which succeeded, and follows that fetch at
\* once (room_send) or after that poll's room_send at most
\* (room_put_state); every fetch follows the join or a sleep; so the titles
\* sent are, in order, a subsequence of the titles polled, and the dispatch
\* for one poll is over before the next fetch starts.
C14_DispatchInPollOrder ==
    LET i == Len(calls)
        g == LastGetBefore(i)
    IN  /\ (i > 0 /\ calls[i].op \in {"room_send", "room_put_state"}) =>
            /\ g > 0
            /\ calls[g].res = "ok"
            /\ calls[g].title = calls[i].title
            /\ \A k \in (g + 1)..(i - 1) : calls[k].op = "room_send"
            /\ (i - g) <= (IF calls[i].op = "room_send" THEN 1 ELSE 2)
        /\ (i > 0 /\ calls[i].op = "get") => (i > 1 /\ calls[i - 1].op \in {"join", "sleep"})
        /\ IsSubsequence(SentTitles(i), PolledTitles(i))

\* C14 witness: polls A, A, B were announced as A, B.
C14_Witness ==
    /\ pc = "sleep"
    /\ PolledTitles(Len(calls)) = <<S_A, S_A, S_B>>
    /\ SentTitles(Len(calls)) = <<S_A, S_B>>
    /\ Count("room_put_state") = 2

\* C15: when user, password, room_id or api_url is empty, no client is
\* created and no call at all is made: main() returns from the config check.
C15_NoSetupWithoutConfig ==
    (settings.user = "" \/ settings.password = "" \/ settings.room_id = <<>>
        \/ settings.api_url = "")
    => /\ ~client
       /\ calls = <<>>
       /\ pc \in {"config", "done"}

\* C15 witness: only api_url is empty and main() has returned.
C15_Witness ==
    /\ pc = "done"
    /\ settings.api_url = ""
    /\ settings.user # "" /\ settings.password # "" /\ settings.room_id # <<>>
    /\ ~client /\ calls = <<>>

\* C16: whenever a status fetch other than the first is made, exactly one
\* sleep was made since the fetch before it, and it is the call right
\* before this fetch.
C16_OneSleepBetweenFetches ==
    LET h == Len(calls)
        g == LastGetBefore(h)
    IN  (h > 0 /\ calls[h].op = "get" /\ g > 0) =>
            /\ Cardinality(Between("sleep", g, h)) = 1
            /\ calls[h - 1].op = "sleep"

\* C16 witness: a dispatched change, an HTTP failure and an unparsable body
\* were each followed by one sleep.
C16_Witness ==
    /\ pc = "get"
    /\ Count("get") = 3
    /\ Count("sleep") = 3
    /\ Count("room_send") = 1
    /\ \E i \in Gets : calls[i].res = "http_error"
    /\ \E i \in Gets : calls[i].res = "parse_error"

\* C17: room_send is never called with send_messages off, room_put_state
\* never with update_topic off, and with both off a detected change still
\* advances current_title by the time the iteration sleeps.
C17_FlagsGateCalls ==
    /\ ~settings.send_messages => Count("room_send") = 0
    /\ ~settings.update_topic => Count("room_put_state") = 0
    /\ (pc = "sleep" /\ notify /\ ~settings.send_messages /\ ~settings.update_topic)
          => /\ current_title = Str(song_title)
             /\ calls[Len(calls)].op = "get"

\* C17 witness: both flags are off, A then B were detected, current_title
\* is B and no messaging call was made.
C17_Witness ==
    /\ ~settings.send_messages /\ ~settings.update_topic
    /\ pc = "sleep" /\ notify
    /\ PolledTitles(Len(calls)) = <<S_A, S_B>>
    /\ current_title = Str(S_B)
    /\ Count("room_send") = 0 /\ Count("room_put_state") = 0

\* a call of op with result "ok" before position i
OkBefore(op, i) == \E j \in 1..(i - 1) : calls[j].op = op /\ calls[j].res = "ok"

\* C18: whenever a status fetch, room_send or room_put_state is made, a
\* successful login and a successful join came before it, a successful
\* resolution too when the configured room is an alias, and no logout or
\* close.
C18_PollingOnlyWhenActive ==
    LET i == Len(calls)
    IN  (i > 0 /\ calls[i].op \in {"get", "room_send", "room_put_state"}) =>
            /\ OkBefore("login", i)
            /\ OkBefore("join", i)
            /\ StartsWith(settings.room_id, "#") => OkBefore("resolve", i)
            /\ \A j \in 1..(i - 1) : calls[j].op \notin {"logout", "close"}

\* C18 witness: an alias was resolved and joined, a message was sent, and
\* the loop ended with logout and close.
C18_Witness ==
    /\ pc = "done"
    /\ settings.room_id = Alias
    /\ Count("room_send") = 1
    /\ Count("logout") = 1 /\ Count("close") = 1

\* C19: logout is never called unless login succeeded, and when main() exits
\* after a successful login (cancellation, if any, delivered inside the poll
\* loop) logout has been called exactly once, before close.
C19_LogoutPairedWithLogin ==
    /\ Count("logout") >= 1 => OkBefore("login", Len(calls) + 1)
    /\ (Exited /\ OkBefore("login", Len(calls) + 1) /\ (cancelled => LoopEntered)) =>
          /\ Count("logout") = 1
          /\ \A i \in DOMAIN calls :
                calls[i].op = "close" => \E j \in 1..(i - 1) : calls[j].op = "logout"

====
